---- MODULE Spec2Model ----
(***************************************************************************)
(* AgroPro (src/app.py): the bounded conversation buffer, the document     *)
(* ingestion pipeline (process_document), one chat round of                *)
(* chat_interface (retrieval, prompt assembly, generation), and the        *)
(* housekeeping sweep over persisted index files.                          *)
(*                                                                         *)
(* Python strings are TLA+ strings; concatenation is \o.  Python's None    *)
(* for a vector store is the record None below.                            *)
(***************************************************************************)
EXTENDS Integers, Sequences, FiniteSets, TLC

VARIABLES
    \* ---- ConversationBuffer (one object)
    buffer,             \* self.buffer: sequence of [role, content]
    max_turns,          \* self.max_turns
    added,              \* history: every turn ever passed to add_message
    \* ---- st.session_state
    vectorstore,        \* st.session_state.vectorstore
    last_uploaded_file, \* st.session_state.last_uploaded_file ("" = key absent)
    messages,           \* st.session_state.messages
    \* ---- one script run of chat_interface / one call of process_document
    pc,                 \* position in the code
    caller,             \* who called process_document
    file,               \* the uploaded file of this run
    prompt,             \* the chat input of this run ("" = none)
    prev_vectorstore,   \* session vectorstore when process_document was entered
    temp_created,       \* NamedTemporaryFile was created by this call
    temp_exists,        \* the temporary file is on disk
    temp_file_path,     \* local temp_file_path is set (not None)
    remaining,          \* bytes of the upload not yet copied
    parsed,             \* a parser was invoked by this call
    split_texts,        \* local split_texts
    batch_start,        \* loop variable i of the batch loop
    builder,            \* local vectorstore of process_document
    embed_calls,        \* number of FAISS.from_texts / add_texts calls made
    result,             \* return value of process_document
    outcome,            \* how process_document ended
    relevant_docs,      \* result of similarity_search in this round
    full_context,       \* the assembled prompt of this round
    response,           \* reply of this round
    backend_failed,     \* a backend call of this round raised
    round_status,       \* how the last chat round ended
    \* ---- working directory seen by cleanup_old_vectorstores
    files,              \* filename -> creation time, or NoFile
    written_by_save,    \* filenames written by save_vectorstore
    now,                \* clock, in ticks
    last_sweep          \* threshold and time of the last sweep

vars == <<buffer, max_turns, added, vectorstore, last_uploaded_file, messages,
          pc, caller, file, prompt, prev_vectorstore, temp_created, temp_exists,
          temp_file_path, remaining, parsed, split_texts, batch_start, builder,
          embed_calls, result, outcome, relevant_docs, full_context, response,
          backend_failed, round_status, files, written_by_save, now, last_sweep>>

bufferVars == <<buffer, max_turns, added>>
sessionVars == <<vectorstore, last_uploaded_file, messages>>
runVars == <<pc, caller, file, prompt, prev_vectorstore, temp_created, temp_exists,
             temp_file_path, remaining, parsed, split_texts, batch_start, builder,
             embed_calls, result, outcome, relevant_docs, full_context, response,
             backend_failed, round_status>>
sweepVars == <<files, written_by_save, now, last_sweep>>

(***************************************************************************)
(* Bounds of the model.                                                    *)
(***************************************************************************)
MaxTurns == 2       \* max_turns of a buffer on its own ranges over 0..MaxTurns
MaxAdds == 5        \* add_message calls on a buffer on its own
MaxRounds == 2      \* chat rounds in a session
MaxChunks == 5      \* chunks the splitter produces for one document
MaxClock == 8       \* ticks the clock advances
\* The source's batch_size is 1000 (src/app.py:86); the model scales it down so
\* that a document of MaxChunks chunks spans several batches.
batch_size == 2
TicksPerDay == 2    \* resolution of the clock

Min(a, b) == IF a < b THEN a ELSE b

(***************************************************************************)
(* ConversationBuffer                                                      *)
(***************************************************************************)
DefaultMaxTurns == 5

Roles == {"user", "assistant"}

\* Python s[-k:] for k >= 0.  -0 is 0, so s[-0:] is s[0:], the whole list.
LastSlice(s, k) ==
    IF k = 0 THEN s
    ELSE SubSeq(s, Len(s) - Min(k, Len(s)) + 1, Len(s))

\* A broken truncation that keeps the first 2*max_turns turns.
add_message_KeepOldest(buf, mt, role, content) ==
    LET appended == Append(buf, [role |-> role, content |-> content])
    IN  IF Len(appended) > mt * 2
        THEN SubSeq(appended, 1, Min(mt * 2, Len(appended)))
        ELSE appended

add_message(buf, mt, role, content) ==
    LET appended == Append(buf, [role |-> role, content |-> content])
    IN  IF Len(appended) > mt * 2
        THEN LastSlice(appended, mt * 2)
        ELSE appended

RECURSIVE JoinLines(_)
\* "\n".join(lines)
JoinLines(lines) ==
    IF Len(lines) = 0 THEN ""
    ELSE IF Len(lines) = 1 THEN lines[1]
    ELSE lines[1] \o "\n" \o JoinLines(Tail(lines))

\* A rendering that ends every line with a newline instead of joining.
get_context_Trailing(buf) ==
    JoinLines([i \in 1..Len(buf) |-> buf[i].role \o ": " \o buf[i].content \o "\n"])

get_context(buf) ==
    JoinLines([i \in 1..Len(buf) |-> buf[i].role \o ": " \o buf[i].content])

(***************************************************************************)
(* Vector stores, uploaded files                                           *)
(***************************************************************************)
None == [active |-> FALSE, texts |-> <<>>]

\* A FAISS store: the texts it holds, in insertion order.
Store(texts) == [active |-> TRUE, texts |-> texts]

\* FAISS.from_texts(batch, embeddings)
from_texts(batch) == Store(batch)

\* vectorstore.add_texts(batch)
add_texts(store, batch) == Store(store.texts \o batch)

\* Python truthiness of a vector store: None is falsy, a FAISS object is truthy.
Truthy(store) == store.active

MAX_FILE_SIZE == 15 * 1024 * 1024

chunk_size == 3 * 1024 * 1024

EndsWith(s, suffix) ==
    /\ Len(s) >= Len(suffix)
    /\ SubSeq(s, Len(s) - Len(suffix) + 1, Len(s)) = suffix

\* st.file_uploader(type=['pdf','docx','txt']) compares extensions without
\* regard to case; str.endswith does not.
FileNames == {"a.pdf", "b.docx", "c.txt", "D.PDF"}

FileSizes == {0, MAX_FILE_SIZE, MAX_FILE_SIZE + 1, 20 * 1024 * 1024}

\* An upload: its name, its size in bytes, and the number of chunks the
\* splitter makes of its text.  An empty file has no text.
Uploads ==
    {f \in [name : FileNames, size : FileSizes, nchunks : 0..MaxChunks] :
        f.size = 0 => f.nchunks = 0}

NoUpload == [name |-> "", size |-> 0, nchunks |-> 0]

\* text_splitter.split_text('\n'.join(texts)): the chunks of the document.
split_text(f) == [i \in 1..f.nchunks |-> f.name \o "#" \o ToString(i)]

OldTexts == <<"old#1", "old#2", "old#3">>

\* load_vectorstore(): None when vectorstore.pkl is absent, else the store
\* an earlier session saved.
LoadableStores == {None, Store(OldTexts)}

NoFile == -1

IndexFileNames == {"vectorstore.pkl", "vectorstore_1.pkl"}

\* save_vectorstore(vectorstore, filename): the file is (re)created now.
save_vectorstore(dir, filename, t) == [dir EXCEPT ![filename] = t]

(***************************************************************************)
(* process_document(file)                                                  *)
(***************************************************************************)
\* A size check that also rejects a file of exactly the limit.
ExceedsLimit_Inclusive(f) == f.size >= MAX_FILE_SIZE

\* line 52
ExceedsLimit(f) == f.size > MAX_FILE_SIZE

\* lines 68-74: the parser chosen by the file name, "" when none matches
ParserFor(name) ==
    IF EndsWith(name, ".pdf") THEN "process_pdf"
    ELSE IF EndsWith(name, ".docx") THEN "UnstructuredFileLoader"
    ELSE IF EndsWith(name, ".txt") THEN "readlines"
    ELSE ""

\* A build that starts from the store the session already holds.
InitialBuilder_Merge(session_store) == session_store

\* line 85: vectorstore = None
InitialBuilder(session_store) == None

\* line 88: split_texts[i:i+batch_size]
Batch(texts, i) == SubSeq(texts, i + 1, Min(i + batch_size, Len(texts)))

\* lines 89-92
BatchStep(store, batch) ==
    IF store = None THEN from_texts(batch) ELSE add_texts(store, batch)

\* An except clause that hands back whatever was built so far.
ExceptResult_Partial(store) == store

\* lines 95-102: both except clauses return None
ExceptResult(store) == None

\* line 104: temp_file_path and os.path.exists(temp_file_path)
ShouldUnlink(path_set, exists) == path_set /\ exists

CallLocalsInit ==
    /\ caller = ""
    /\ prev_vectorstore = None
    /\ temp_created = FALSE
    /\ temp_exists = FALSE
    /\ temp_file_path = FALSE
    /\ remaining = 0
    /\ parsed = ""
    /\ split_texts = <<>>
    /\ batch_start = 0
    /\ builder = None
    /\ embed_calls = 0
    /\ result = None
    /\ outcome = ""

ResetCallLocals ==
    /\ caller' = ""
    /\ prev_vectorstore' = None
    /\ temp_created' = FALSE
    /\ temp_exists' = FALSE
    /\ temp_file_path' = FALSE
    /\ remaining' = 0
    /\ parsed' = ""
    /\ split_texts' = <<>>
    /\ batch_start' = 0
    /\ builder' = None
    /\ embed_calls' = 0
    /\ result' = None
    /\ outcome' = ""

callLocals == <<caller, prev_vectorstore, temp_created, temp_exists, temp_file_path,
                remaining, parsed, split_texts, batch_start, builder, embed_calls,
                result, outcome>>
roundLocals == <<relevant_docs, full_context, response, backend_failed, round_status>>

\* process_document called on its own, outside chat_interface.
call_process_document(f) ==
    /\ pc = "idle"
    /\ file' = f
    /\ caller' = "direct"
    /\ prev_vectorstore' = vectorstore
    /\ pc' = "pd_entry"
    /\ UNCHANGED <<bufferVars, sessionVars, sweepVars, roundLocals, prompt,
                   temp_created, temp_exists, temp_file_path, remaining, parsed,
                   split_texts, batch_start, builder, embed_calls, result, outcome>>

\* lines 51-54
pd_size_check ==
    /\ pc = "pd_entry"
    /\ IF ExceedsLimit(file)
       THEN /\ result' = None
            /\ outcome' = "too_large"
            /\ pc' = "pd_return"
       ELSE /\ pc' = "pd_mktemp"
            /\ UNCHANGED <<result, outcome>>
    /\ UNCHANGED <<bufferVars, sessionVars, sweepVars, roundLocals, file, prompt,
                   caller, prev_vectorstore, temp_created, temp_exists,
                   temp_file_path, remaining, parsed, split_texts, batch_start,
                   builder, embed_calls>>

\* line 58: the temporary file is created (delete=False)
pd_mktemp_ok ==
    /\ pc = "pd_mktemp"
    /\ temp_created' = TRUE
    /\ temp_exists' = TRUE
    /\ remaining' = file.size
    /\ pc' = "pd_copy"
    /\ UNCHANGED <<bufferVars, sessionVars, sweepVars, roundLocals, file, prompt,
                   caller, prev_vectorstore, temp_file_path, parsed, split_texts,
                   batch_start, builder, embed_calls, result, outcome>>

\* line 58 raises (no temporary directory, no space): nothing was created
pd_mktemp_raises ==
    /\ pc = "pd_mktemp"
    /\ pc' = "pd_except"
    /\ UNCHANGED <<bufferVars, sessionVars, sweepVars, roundLocals, file, prompt,
                   callLocals>>

\* lines 61-66: one iteration of the copy loop; temp_file_path is assigned
\* only after the loop has ended
pd_copy ==
    /\ pc = "pd_copy"
    /\ IF remaining = 0
       THEN /\ temp_file_path' = TRUE
            /\ pc' = "pd_parse"
            /\ UNCHANGED remaining
       ELSE /\ remaining' = remaining - Min(remaining, chunk_size)
            /\ UNCHANGED <<temp_file_path, pc>>
    /\ UNCHANGED <<bufferVars, sessionVars, sweepVars, roundLocals, file, prompt,
                   caller, prev_vectorstore, temp_created, temp_exists, parsed,
                   split_texts, batch_start, builder, embed_calls, result, outcome>>

\* lines 62, 65: file.read or temp_file.write raises during the copy
pd_copy_raises ==
    /\ pc = "pd_copy"
    /\ remaining > 0
    /\ pc' = "pd_except"
    /\ UNCHANGED <<bufferVars, sessionVars, sweepVars, roundLocals, file, prompt,
                   callLocals>>

\* lines 68-76: the parser for the file type returns the document's texts
pd_parse_ok ==
    /\ pc = "pd_parse"
    /\ ParserFor(file.name) # ""
    /\ parsed' = ParserFor(file.name)
    /\ pc' = "pd_split"
    /\ UNCHANGED <<bufferVars, sessionVars, sweepVars, roundLocals, file, prompt,
                   caller, prev_vectorstore, temp_created, temp_exists,
                   temp_file_path, remaining, split_texts, batch_start, builder,
                   embed_calls, result, outcome>>

\* lines 68-76: the parser raises (ImportError or any other Exception)
pd_parse_raises ==
    /\ pc = "pd_parse"
    /\ ParserFor(file.name) # ""
    /\ parsed' = ParserFor(file.name)
    /\ pc' = "pd_except"
    /\ UNCHANGED <<bufferVars, sessionVars, sweepVars, roundLocals, file, prompt,
                   caller, prev_vectorstore, temp_created, temp_exists,
                   temp_file_path, remaining, split_texts, batch_start, builder,
                   embed_calls, result, outcome>>

\* lines 77-79
pd_unsupported ==
    /\ pc = "pd_parse"
    /\ ParserFor(file.name) = ""
    /\ result' = None
    /\ outcome' = "unsupported"
    /\ pc' = "pd_finally"
    /\ UNCHANGED <<bufferVars, sessionVars, sweepVars, roundLocals, file, prompt,
                   caller, prev_vectorstore, temp_created, temp_exists,
                   temp_file_path, remaining, parsed, split_texts, batch_start,
                   builder, embed_calls>>

\* lines 81-86
pd_split ==
    /\ pc = "pd_split"
    /\ split_texts' = split_text(file)
    /\ builder' = InitialBuilder(vectorstore)
    /\ batch_start' = 0
    /\ pc' = "pd_batch"
    /\ UNCHANGED <<bufferVars, sessionVars, sweepVars, roundLocals, file, prompt,
                   caller, prev_vectorstore, temp_created, temp_exists,
                   temp_file_path, remaining, parsed, embed_calls, result, outcome>>

\* lines 87-92: one batch is embedded and inserted
pd_batch_ok ==
    /\ pc = "pd_batch"
    /\ batch_start < Len(split_texts)
    /\ builder' = BatchStep(builder, Batch(split_texts, batch_start))
    /\ embed_calls' = embed_calls + 1
    /\ batch_start' = batch_start + batch_size
    /\ UNCHANGED <<bufferVars, sessionVars, sweepVars, roundLocals, file, prompt,
                   caller, prev_vectorstore, temp_created, temp_exists,
                   temp_file_path, remaining, parsed, split_texts, result, outcome,
                   pc>>

\* lines 90, 92: the embedding backend raises on this batch
pd_batch_raises ==
    /\ pc = "pd_batch"
    /\ batch_start < Len(split_texts)
    /\ embed_calls' = embed_calls + 1
    /\ pc' = "pd_except"
    /\ UNCHANGED <<bufferVars, sessionVars, sweepVars, roundLocals, file, prompt,
                   caller, prev_vectorstore, temp_created, temp_exists,
                   temp_file_path, remaining, parsed, split_texts, batch_start,
                   builder, result, outcome>>

\* line 94: the loop is over, return vectorstore
pd_loop_done ==
    /\ pc = "pd_batch"
    /\ batch_start >= Len(split_texts)
    /\ result' = builder
    /\ outcome' = "built"
    /\ pc' = "pd_finally"
    /\ UNCHANGED <<bufferVars, sessionVars, sweepVars, roundLocals, file, prompt,
                   caller, prev_vectorstore, temp_created, temp_exists,
                   temp_file_path, remaining, parsed, split_texts, batch_start,
                   builder, embed_calls>>

\* lines 95-102
pd_except ==
    /\ pc = "pd_except"
    /\ result' = ExceptResult(builder)
    /\ outcome' = "error"
    /\ pc' = "pd_finally"
    /\ UNCHANGED <<bufferVars, sessionVars, sweepVars, roundLocals, file, prompt,
                   caller, prev_vectorstore, temp_created, temp_exists,
                   temp_file_path, remaining, parsed, split_texts, batch_start,
                   builder, embed_calls>>

\* lines 103-106: os.unlink succeeds, or there is nothing to unlink
pd_finally ==
    /\ pc = "pd_finally"
    /\ temp_exists' = IF ShouldUnlink(temp_file_path, temp_exists)
                      THEN FALSE ELSE temp_exists
    /\ pc' = "pd_return"
    /\ UNCHANGED <<bufferVars, sessionVars, sweepVars, roundLocals, file, prompt,
                   caller, prev_vectorstore, temp_created, temp_file_path,
                   remaining, parsed, split_texts, batch_start, builder,
                   embed_calls, result, outcome>>

\* lines 105-108: os.unlink raises; a warning is shown and the file stays
pd_finally_unlink_raises ==
    /\ pc = "pd_finally"
    /\ ShouldUnlink(temp_file_path, temp_exists)
    /\ pc' = "pd_return"
    /\ UNCHANGED <<bufferVars, sessionVars, sweepVars, roundLocals, file, prompt,
                   caller, prev_vectorstore, temp_created, temp_exists,
                   temp_file_path, remaining, parsed, split_texts, batch_start,
                   builder, embed_calls, result, outcome>>

\* the direct caller takes the result; nothing of the session changes
pd_return_direct ==
    /\ pc = "pd_return"
    /\ caller = "direct"
    /\ pc' = "idle"
    /\ file' = NoUpload
    /\ ResetCallLocals
    /\ UNCHANGED <<bufferVars, sessionVars, sweepVars, roundLocals, prompt>>

(***************************************************************************)
(* get_gemini_response(conversation_buffer, prompt, vectorstore)           *)
(***************************************************************************)
\* lines 149-159, the numbered guidelines abridged
base_context ==
    "You are AgroPro, a helpful and knowledgeable AI specializing in agriculture."
    \o "\n\n    Previous conversation:\n    "

APOLOGY ==
    "I'm sorry, I encountered an error. Could you please try again or rephrase your question?"

Queries == {"q1", "q2"}

\* The number i of a chunk text "<name>#<i>".
ChunkNo(text) ==
    CHOOSE i \in 1..9 : ToString(i) = SubSeq(text, Len(text), Len(text))

\* The embedding distance between a chunk and a query: q1 lies nearest the
\* first chunk of a document, q2 nearest its third, with ties on either side.
Distance(text, query) ==
    IF query = "q1" THEN ChunkNo(text)
    ELSE IF ChunkNo(text) >= 3 THEN ChunkNo(text) - 3 ELSE 3 - ChunkNo(text)

RECURSIVE Nearest(_, _, _, _)
\* The k nearest texts not yet taken, nearest first, earlier insertion first
\* among equals.
Nearest(texts, query, k, taken) ==
    LET rest == DOMAIN texts \ taken
    IN  IF k = 0 \/ rest = {} THEN <<>>
        ELSE LET best == CHOOSE i \in rest : \A j \in rest :
                            \/ Distance(texts[i], query) < Distance(texts[j], query)
                            \/ /\ Distance(texts[i], query) = Distance(texts[j], query)
                               /\ i <= j
             IN  <<texts[best]>> \o Nearest(texts, query, k - 1, taken \cup {best})

\* line 163: vectorstore.similarity_search(prompt, k)
similarity_search(store, query, k) == Nearest(store.texts, query, k, {})

\* A prompt that carries the document section even without a store.
AssemblePrompt_AlwaysSection(context, query, store, docs) ==
    base_context \o "\n" \o context \o "\n\nRelevant document content:\n"
        \o JoinLines(docs) \o "\n\nUser query: " \o query

\* lines 162-167
AssemblePrompt(context, query, store, docs) ==
    IF Truthy(store)
    THEN base_context \o "\n" \o context \o "\n\nRelevant document content:\n"
            \o JoinLines(docs) \o "\n\nUser query: " \o query
    ELSE base_context \o "\n" \o context \o "\n\nUser query: " \o query

RECURSIVE JoinSpaces(_)
\* ' '.join(parts)
JoinSpaces(parts) ==
    IF Len(parts) = 0 THEN ""
    ELSE IF Len(parts) = 1 THEN parts[1]
    ELSE parts[1] \o " " \o JoinSpaces(Tail(parts))

\* What model.generate_content can return: an object with a text attribute,
\* one with parts only, or one with neither.
LLMResponses ==
    { [has_text |-> TRUE, text |-> "Rotate your crops.", has_parts |-> TRUE,
       parts |-> <<"Rotate your crops.">>],
      [has_text |-> FALSE, text |-> "", has_parts |-> TRUE,
       parts |-> <<"Rotate", "your crops.">>],
      [has_text |-> FALSE, text |-> "", has_parts |-> FALSE, parts |-> <<>>] }

\* lines 171-176
ResponseText(r) ==
    IF r.has_text THEN r.text
    ELSE IF r.has_parts THEN JoinSpaces(r.parts)
    ELSE "<response object>"

(***************************************************************************)
(* chat_interface(): one run of the script                                 *)
(***************************************************************************)
\* line 232
UploaderExceedsLimit(f) == f.size > MAX_FILE_SIZE

\* line 239
ShouldPublish(res) == res # None

UserTurns(msgs) == Cardinality({i \in DOMAIN msgs : msgs[i].role = "user"})

RoundLocalsInit ==
    /\ relevant_docs = <<>>
    /\ full_context = ""
    /\ response = ""
    /\ backend_failed = FALSE
    /\ round_status = ""

ResetRoundLocals ==
    /\ relevant_docs' = <<>>
    /\ full_context' = ""
    /\ response' = ""
    /\ backend_failed' = FALSE
    /\ round_status' = ""

\* The script runs with the uploader holding f (NoUpload: empty) and the chat
\* input holding p ("": nothing submitted).
rerun(f, p) ==
    /\ pc = "idle"
    /\ p # "" => UserTurns(messages) < MaxRounds
    /\ file' = f
    /\ prompt' = p
    /\ pc' = "sidebar"
    /\ UNCHANGED <<bufferVars, sessionVars, sweepVars, roundLocals, callLocals>>

\* lines 231-247
sidebar ==
    /\ pc = "sidebar"
    /\ IF file # NoUpload /\ ~UploaderExceedsLimit(file)
          /\ (last_uploaded_file = "" \/ last_uploaded_file # file.name)
       THEN /\ caller' = "chat_interface"
            /\ prev_vectorstore' = vectorstore
            /\ pc' = "pd_entry"
       ELSE /\ pc' = "chat"
            /\ UNCHANGED <<caller, prev_vectorstore>>
    /\ UNCHANGED <<bufferVars, sessionVars, sweepVars, roundLocals, file, prompt,
                   temp_created, temp_exists, temp_file_path, remaining, parsed,
                   split_texts, batch_start, builder, embed_calls, result, outcome>>

\* lines 239-243
publish ==
    /\ pc = "pd_return"
    /\ caller = "chat_interface"
    /\ ShouldPublish(result)
    /\ vectorstore' = result
    /\ files' = save_vectorstore(files, "vectorstore.pkl", now)
    /\ written_by_save' = written_by_save \cup {"vectorstore.pkl"}
    /\ last_uploaded_file' = file.name
    /\ pc' = "chat"
    /\ ResetCallLocals
    /\ UNCHANGED <<bufferVars, messages, now, last_sweep, roundLocals, file, prompt>>

\* lines 240-241: save_vectorstore raises after the session store was set;
\* the exception ends the run, last_uploaded_file stays as it was
publish_save_raises ==
    /\ pc = "pd_return"
    /\ caller = "chat_interface"
    /\ ShouldPublish(result)
    /\ vectorstore' = result
    /\ files' = save_vectorstore(files, "vectorstore.pkl", now)
    /\ written_by_save' = written_by_save \cup {"vectorstore.pkl"}
    /\ pc' = "idle"
    /\ file' = NoUpload
    /\ prompt' = ""
    /\ ResetCallLocals
    /\ UNCHANGED <<bufferVars, messages, last_uploaded_file, now, last_sweep,
                   roundLocals>>

\* lines 244-245
publish_failed ==
    /\ pc = "pd_return"
    /\ caller = "chat_interface"
    /\ ~ShouldPublish(result)
    /\ pc' = "chat"
    /\ ResetCallLocals
    /\ UNCHANGED <<bufferVars, sessionVars, sweepVars, roundLocals, file, prompt>>

\* line 287 with nothing submitted: the run ends
chat_no_input ==
    /\ pc = "chat"
    /\ prompt = ""
    /\ pc' = "idle"
    /\ file' = NoUpload
    /\ UNCHANGED <<bufferVars, sessionVars, sweepVars, roundLocals, prompt,
                   callLocals>>

\* lines 287-290
chat_user_turn ==
    /\ pc = "chat"
    /\ prompt # ""
    /\ messages' = Append(messages, [role |-> "user", content |-> prompt])
    /\ buffer' = add_message(buffer, max_turns, "user", prompt)
    /\ added' = Append(added, [role |-> "user", content |-> prompt])
    /\ pc' = "retrieve"
    /\ UNCHANGED <<max_turns, vectorstore, last_uploaded_file, sweepVars,
                   roundLocals, file, prompt, callLocals>>

\* lines 160-165, store active: the search returns and the prompt is assembled
gr_retrieve ==
    /\ pc = "retrieve"
    /\ Truthy(vectorstore)
    /\ relevant_docs' = similarity_search(vectorstore, prompt, 2)
    /\ full_context' = AssemblePrompt(get_context(buffer), prompt, vectorstore,
                                       relevant_docs')
    /\ pc' = "generate"
    /\ UNCHANGED <<bufferVars, sessionVars, sweepVars, file, prompt, callLocals,
                   response, backend_failed, round_status>>

\* line 163 raises: it is outside the try of line 169, and chat_interface
\* (line 294) calls get_gemini_response, not safe_get_gemini_response, so the
\* exception ends the run
gr_retrieve_raises ==
    /\ pc = "retrieve"
    /\ Truthy(vectorstore)
    /\ backend_failed' = TRUE
    /\ round_status' = "raised"
    /\ pc' = "round_end"
    /\ UNCHANGED <<bufferVars, sessionVars, sweepVars, file, prompt, callLocals,
                   relevant_docs, full_context, response>>

\* lines 160-167, no store
gr_no_store ==
    /\ pc = "retrieve"
    /\ ~Truthy(vectorstore)
    /\ full_context' = AssemblePrompt(get_context(buffer), prompt, vectorstore, <<>>)
    /\ pc' = "generate"
    /\ UNCHANGED <<bufferVars, sessionVars, sweepVars, file, prompt, callLocals,
                   relevant_docs, response, backend_failed, round_status>>

\* lines 170-176
gr_generate(r) ==
    /\ pc = "generate"
    /\ response' = ResponseText(r)
    /\ pc' = "record"
    /\ UNCHANGED <<bufferVars, sessionVars, sweepVars, file, prompt, callLocals,
                   relevant_docs, full_context, backend_failed, round_status>>

\* lines 177-179
gr_generate_raises ==
    /\ pc = "generate"
    /\ response' = APOLOGY
    /\ backend_failed' = TRUE
    /\ pc' = "record"
    /\ UNCHANGED <<bufferVars, sessionVars, sweepVars, file, prompt, callLocals,
                   relevant_docs, full_context, round_status>>

\* lines 296-298
chat_assistant_turn ==
    /\ pc = "record"
    /\ messages' = Append(messages, [role |-> "assistant", content |-> response])
    /\ buffer' = add_message(buffer, max_turns, "assistant", response)
    /\ added' = Append(added, [role |-> "assistant", content |-> response])
    /\ round_status' = "replied"
    /\ pc' = "round_end"
    /\ UNCHANGED <<max_turns, vectorstore, last_uploaded_file, sweepVars, file,
                   prompt, callLocals, relevant_docs, full_context, response,
                   backend_failed>>

\* the run is over; the session waits for the next interaction
round_end ==
    /\ pc = "round_end"
    /\ pc' = "idle"
    /\ file' = NoUpload
    /\ prompt' = ""
    /\ ResetRoundLocals
    /\ UNCHANGED <<bufferVars, sessionVars, sweepVars, callLocals>>

(***************************************************************************)
(* cleanup_old_vectorstores(max_age_days) and the files it looks at        *)
(***************************************************************************)
DefaultMaxAgeDays == 2

StartsWith(s, prefix) ==
    /\ Len(s) >= Len(prefix)
    /\ SubSeq(s, 1, Len(prefix)) = prefix

\* line 303
SweepMatches(filename) ==
    StartsWith(filename, "vectorstore_") /\ EndsWith(filename, ".pkl")

\* timedelta.days: whole days, rounded down
Days(age) == age \div TicksPerDay

\* lines 302-307
cleanup_old_vectorstores(max_age_days) ==
    /\ files' = [f \in DOMAIN files |->
                    IF /\ files[f] # NoFile
                       /\ SweepMatches(f)
                       /\ Days(now - files[f]) > max_age_days
                    THEN NoFile ELSE files[f]]
    /\ last_sweep' = [ran |-> TRUE, threshold |-> max_age_days, at |-> now,
                       before |-> files]
    /\ UNCHANGED <<bufferVars, sessionVars, runVars, written_by_save, now>>

\* save_vectorstore called with the given filename (the default is
\* "vectorstore.pkl")
sweep_save(filename) ==
    /\ files' = save_vectorstore(files, filename, now)
    /\ written_by_save' = written_by_save \cup {filename}
    /\ UNCHANGED <<bufferVars, sessionVars, runVars, now, last_sweep>>

\* time passes
tick ==
    /\ now < MaxClock
    /\ now' = now + 1
    /\ UNCHANGED <<bufferVars, sessionVars, runVars, files, written_by_save,
                   last_sweep>>

(***************************************************************************)
(* A ConversationBuffer on its own                                         *)
(***************************************************************************)
Contents == {"", "X", "Y\nZ"}

buffer_add(role, content) ==
    /\ Len(added) < MaxAdds
    /\ buffer' = add_message(buffer, max_turns, role, content)
    /\ added' = Append(added, [role |-> role, content |-> content])
    /\ UNCHANGED <<max_turns, sessionVars, runVars, sweepVars>>

(***************************************************************************)
(* Initial states                                                          *)
(***************************************************************************)
\* lines 129-131
BufferInit(mt) ==
    /\ buffer = <<>>
    /\ added = <<>>
    /\ max_turns = mt

\* lines 206-207, 276-279: the session starts with what load_vectorstore()
\* finds, no messages, a ConversationBuffer() and no last_uploaded_file
SessionInit(stores) ==
    /\ vectorstore \in stores
    /\ last_uploaded_file = ""
    /\ messages = <<>>

RunInit ==
    /\ pc = "idle"
    /\ file = NoUpload
    /\ prompt = ""
    /\ CallLocalsInit
    /\ RoundLocalsInit

NoSweep == [ran |-> FALSE, threshold |-> 0, at |-> 0,
            before |-> [f \in IndexFileNames |-> NoFile]]

\* vectorstore.pkl is there exactly when load_vectorstore() found a store
DirInit ==
    /\ files = [f \in IndexFileNames |->
                   IF f = "vectorstore.pkl" /\ vectorstore # None THEN 0 ELSE NoFile]
    /\ written_by_save = {f \in IndexFileNames : files[f] # NoFile}
    /\ now = 0
    /\ last_sweep = NoSweep

(***************************************************************************)
(* Sessions of uploads and chat rounds                                     *)
(***************************************************************************)
\* Uploads of a session: every file name, at and above the size limit,
\* empty of text or with MaxChunks chunks.
SessionUploads ==
    {f \in Uploads : f.size \in {MAX_FILE_SIZE, MAX_FILE_SIZE + 1}
                      /\ f.nchunks \in {0, MaxChunks}}

TextResponse == CHOOSE r \in LLMResponses : r.has_text

Init ==
    /\ BufferInit(DefaultMaxTurns)
    /\ SessionInit(LoadableStores)
    /\ RunInit
    /\ DirInit

ProcessDocumentSteps ==
    \/ pd_size_check
    \/ pd_mktemp_ok
    \/ pd_mktemp_raises
    \/ pd_copy
    \/ pd_copy_raises
    \/ pd_parse_ok
    \/ pd_parse_raises
    \/ pd_unsupported
    \/ pd_split
    \/ pd_batch_ok
    \/ pd_batch_raises
    \/ pd_loop_done
    \/ pd_except
    \/ pd_finally
    \/ pd_finally_unlink_raises

Next ==
    \/ \E f \in SessionUploads \cup {NoUpload}, p \in {"", "q1"} : rerun(f, p)
    \/ sidebar
    \/ ProcessDocumentSteps
    \/ publish
    \/ publish_save_raises
    \/ publish_failed
    \/ chat_no_input
    \/ chat_user_turn
    \/ gr_retrieve
    \/ gr_retrieve_raises
    \/ gr_no_store
    \/ gr_generate(TextResponse)
    \/ gr_generate_raises
    \/ chat_assistant_turn
    \/ round_end

Spec == Init /\ [][Next]_vars

(***************************************************************************)
(* Ingestion alone: process_document called by the upload handler and on   *)
(* its own, with every upload                                              *)
(***************************************************************************)
NextIngest ==
    \/ \E f \in Uploads : rerun(f, "")
    \/ \E f \in Uploads : call_process_document(f)
    \/ sidebar
    \/ ProcessDocumentSteps
    \/ publish
    \/ publish_save_raises
    \/ publish_failed
    \/ pd_return_direct
    \/ chat_no_input

SpecIngest == Init /\ [][NextIngest]_vars

(***************************************************************************)
(* Chat rounds alone, over any store a session can start with              *)
(***************************************************************************)
ChatStores ==
    LoadableStores \cup
    {Store(split_text([name |-> "a.pdf", size |-> MAX_FILE_SIZE, nchunks |-> n])) :
        n \in 1..MaxChunks}

InitChat ==
    /\ BufferInit(DefaultMaxTurns)
    /\ SessionInit(ChatStores)
    /\ RunInit
    /\ DirInit

NextChat ==
    \/ \E p \in Queries \cup {""} : rerun(NoUpload, p)
    \/ sidebar
    \/ chat_no_input
    \/ chat_user_turn
    \/ gr_retrieve
    \/ gr_retrieve_raises
    \/ gr_no_store
    \/ \E r \in LLMResponses : gr_generate(r)
    \/ gr_generate_raises
    \/ chat_assistant_turn
    \/ round_end

SpecChat == InitChat /\ [][NextChat]_vars

(***************************************************************************)
(* A buffer of any max_turns receiving any turns                           *)
(***************************************************************************)
InitBuffer ==
    /\ \E mt \in 0..MaxTurns : BufferInit(mt)
    /\ SessionInit({None})
    /\ RunInit
    /\ DirInit

NextBuffer == \E role \in Roles, content \in Contents : buffer_add(role, content)

SpecBuffer == InitBuffer /\ [][NextBuffer]_vars

(***************************************************************************)
(* The working directory over time                                         *)
(***************************************************************************)
InitSweep ==
    /\ BufferInit(DefaultMaxTurns)
    /\ SessionInit({None})
    /\ RunInit
    /\ DirInit

NextSweep ==
    \/ tick
    \/ \E filename \in IndexFileNames : sweep_save(filename)
    \/ \E d \in 0..DefaultMaxAgeDays : cleanup_old_vectorstores(d)

SpecSweep == InitSweep /\ [][NextSweep]_vars

(***************************************************************************)
(* Properties of the conversation buffer (SpecBuffer)                      *)
(***************************************************************************)

\* C1: for every max_turns >= 0, 0 included, and after any sequence of
\* add_message calls, the buffer holds at most 2 * max_turns turns.
C1_LengthBounded == Len(buffer) <= 2 * max_turns

\* C2: for max_turns >= 1, after n additions the buffer is exactly the last
\* min(n, 2*max_turns) turns added, in the order added and unaltered; so after
\* n >= 2*max_turns + 1 additions it holds exactly 2*max_turns turns and the
\* evicted ones are the oldest.
C2_RetainsMostRecent ==
    max_turns >= 1 =>
        LET n == Len(added)
            k == Min(n, 2 * max_turns)
        IN  /\ Len(buffer) = k
            /\ \A i \in 1..k : buffer[i] = added[n - k + i]
            /\ n >= 2 * max_turns + 1 => Len(buffer) = 2 * max_turns

\* C2 witness: a buffer that has evicted its oldest turn.
C2_Witness ==
    /\ max_turns >= 1
    /\ Len(added) >= 2 * max_turns + 1
    /\ buffer[1] # added[1]
    /\ buffer[Len(buffer)] = added[Len(added)]

RenderedLine(buf, i) == buf[i].role \o ": " \o buf[i].content

RECURSIVE LineOffset(_, _)
\* Number of characters before line i of the rendering: the lines before it
\* and one newline after each.
LineOffset(buf, i) ==
    IF i = 1 THEN 0
    ELSE LineOffset(buf, i - 1) + Len(RenderedLine(buf, i - 1)) + 1

RECURSIVE Replay(_, _, _)
\* A second buffer of the same max_turns given the same turns, one by one.
Replay(turns, mt, buf) ==
    IF turns = <<>> THEN buf
    ELSE Replay(Tail(turns), mt,
                add_message(buf, mt, Head(turns).role, Head(turns).content))

C3_FailureBecomesApology ==
    (pc = "round_end" /\ backend_failed) =>
        /\ round_status = "replied"
        /\ response = APOLOGY
        /\ buffer # <<>>
        /\ buffer[Len(buffer)] = [role |-> "assistant", content |-> APOLOGY]

\* Position of the first occurrence of sub in s, 0 when there is none.
Find(s, sub) ==
    LET hits == {i \in 1..(Len(s) - Len(sub) + 1) : SubSeq(s, i, i + Len(sub) - 1) = sub}
    IN  IF hits = {} THEN 0 ELSE CHOOSE i \in hits : \A j \in hits : i <= j

SectionLabel == "Relevant document content:"

\* The contract of a k-nearest search: k results (all of the store when it
\* holds fewer), taken from distinct entries of the store, nearest first, and
\* nothing left out is nearer than the last one returned.
IsTopK(docs, store, query, k) ==
    /\ Len(docs) = Min(k, Len(store.texts))
    /\ \E pick \in [1..Len(docs) -> DOMAIN store.texts] :
          /\ \A i \in 1..Len(docs) : store.texts[pick[i]] = docs[i]
          /\ \A i, j \in 1..Len(docs) : i # j => pick[i] # pick[j]
          /\ \A i \in 1..Len(docs), m \in DOMAIN store.texts :
                (\A j \in 1..Len(docs) : pick[j] # m) =>
                    Distance(docs[i], query) <= Distance(store.texts[m], query)
    /\ \A i \in 1..(Len(docs) - 1) :
          Distance(docs[i], query) <= Distance(docs[i + 1], query)

\* C5: the assembled prompt is the preamble, then the buffer's rendered
\* context, then (only when a store is active) the labelled document section
\* holding exactly the chunks the k=2 search returned, best first and
\* newline-joined, then the labelled user query; without a store the label
\* does not occur in the prompt at all.
C5_PromptStructure ==
    pc \in {"generate", "record"} =>
        LET head == base_context \o "\n" \o get_context(buffer)
            tail == "\n\nUser query: " \o prompt
            middle == SubSeq(full_context, Len(head) + 1,
                             Len(full_context) - Len(tail))
        IN  /\ StartsWith(full_context, head)
            /\ EndsWith(full_context, tail)
            /\ Len(full_context) >= Len(head) + Len(tail)
            /\ ~Truthy(vectorstore) =>
                  /\ middle = ""
                  /\ Find(full_context, SectionLabel) = 0
            /\ Truthy(vectorstore) =>
                  /\ IsTopK(relevant_docs, vectorstore, prompt, 2)
                  /\ Find(full_context, SectionLabel) = Len(head) + 3
                  /\ middle = "\n\n" \o SectionLabel \o "\n"
                        \o (IF Len(relevant_docs) = 0 THEN ""
                            ELSE IF Len(relevant_docs) = 1 THEN relevant_docs[1]
                            ELSE relevant_docs[1] \o "\n" \o relevant_docs[2])

\* C5 witness: a second-round prompt over a store of at least three chunks
\* whose best match is not the first chunk inserted.
C5_Witness ==
    /\ pc = "generate"
    /\ Truthy(vectorstore)
    /\ Len(vectorstore.texts) >= 3
    /\ Len(relevant_docs) = 2
    /\ relevant_docs[1] # vectorstore.texts[1]
    /\ Len(buffer) >= 3
    /\ Find(full_context, relevant_docs[1]) > Find(full_context, SectionLabel)
    /\ Find(full_context, relevant_docs[2]) > Find(full_context, relevant_docs[1])

(***************************************************************************)
(* Properties of ingestion (SpecIngest) and of a session (Spec)            *)
(***************************************************************************)

\* The stores that hold a whole document: what a session can load at its
\* start, and the store of all chunks of an upload of the session.
CompleteStores ==
    LoadableStores \cup
    {Store(split_text(f)) : f \in {u \in SessionUploads : u.nchunks > 0}}

\* C4: the session's store changes only when process_document has returned
\* the finished store of the whole uploaded document; when process_document
\* fails at any point the store of the session stays as it was; and every
\* query is answered from a store that holds a whole document, or from none.
C4_OnlyCompleteStorePublished ==
    /\ [][ /\ vectorstore' # vectorstore =>
                /\ pc = "pd_return"
                /\ outcome = "built"
                /\ file.nchunks > 0
                /\ vectorstore' = Store(split_text(file))
           /\ (pc = "pd_return" /\ outcome # "built") => vectorstore' = vectorstore
          ]_vars
    /\ [](pc \in {"retrieve", "generate", "record"} => vectorstore \in CompleteStores)

\* C4 witness: an upload has failed in a later batch, after part of its
\* chunks were inserted, while the session holds the store of another upload.
C4_Witness ==
    /\ pc = "pd_return"
    /\ caller = "chat_interface"
    /\ outcome = "error"
    /\ Truthy(builder)
    /\ Len(builder.texts) < Len(split_texts)
    /\ last_uploaded_file # ""
    /\ vectorstore = prev_vectorstore
    /\ Truthy(vectorstore)
    /\ prompt # ""

\* C7: when process_document has returned, whatever the outcome, the
\* temporary file it created is gone.
C7_TempFileRemoved == pc = "pd_return" => ~temp_exists

\* C8: an upload larger than 15 MB is rejected by process_document before
\* anything is done with it: no temporary file, no parser, no splitter, no
\* embedding call, None returned, the session's store untouched; an upload of
\* exactly 15 MB is not rejected for its size.
C8_OversizeRejectedFirst ==
    /\ (caller # "" /\ file.size > 15 * 1024 * 1024) =>
          /\ pc \in {"pd_entry", "pd_return"}
          /\ ~temp_created
          /\ ~temp_exists
          /\ parsed = ""
          /\ split_texts = <<>>
          /\ embed_calls = 0
          /\ builder = None
          /\ vectorstore = prev_vectorstore
          /\ pc = "pd_return" => (result = None /\ outcome = "too_large")
    /\ (caller # "" /\ file.size <= 15 * 1024 * 1024) => outcome # "too_large"

\* C8 witness: process_document has returned from a 20 MB upload.
C8_Witness ==
    /\ pc = "pd_return"
    /\ file.size = 20 * 1024 * 1024
    /\ result = None
    /\ outcome = "too_large"
    /\ Truthy(vectorstore)

\* Number of batches of at most b chunks that n chunks make.
BatchCount(n, b) == (n + b - 1) \div b

\* C10: the batch loop inserts every chunk exactly once, in order: after each
\* batch the store under construction holds exactly the chunks of the batches
\* done, the first batch having created it; every batch has between one and
\* batch_size chunks; and a finished build is the store of exactly the chunks
\* of the uploaded document, whatever store the session held before.
C10_EveryChunkOnce ==
    /\ pc = "pd_batch" =>
          /\ builder = IF batch_start = 0 THEN None
                        ELSE Store(SubSeq(split_texts, 1,
                                          Min(batch_start, Len(split_texts))))
          /\ embed_calls * batch_size = batch_start
          /\ batch_start < Len(split_texts) =>
                /\ Len(Batch(split_texts, batch_start)) >= 1
                /\ Len(Batch(split_texts, batch_start)) <= batch_size
    /\ (pc \in {"pd_finally", "pd_return"} /\ outcome = "built") =>
          /\ split_texts = split_text(file)
          /\ result = IF file.nchunks = 0 THEN None ELSE Store(split_text(file))
          /\ embed_calls = BatchCount(file.nchunks, batch_size)

\* C10 witness: a build of several batches, the last one short, finished in a
\* session that held another store.
C10_Witness ==
    /\ pc = "pd_return"
    /\ outcome = "built"
    /\ embed_calls >= 2
    /\ Len(result.texts) = MaxChunks
    /\ Truthy(prev_vectorstore)
    /\ prev_vectorstore # result

(***************************************************************************)
(* Property of the housekeeping sweep (SpecSweep)                          *)
(***************************************************************************)

\* C9: a sweep removes every index file written by save_vectorstore that is
\* older than the threshold of that sweep, and removes none that is not.
C9_SweepRemovesOldIndexFiles ==
    last_sweep.ran =>
        \A f \in IndexFileNames :
            LET created == last_sweep.before[f]
                age == last_sweep.at - created
            IN  (created # NoFile /\ f \in written_by_save) =>
                    /\ age > last_sweep.threshold * TicksPerDay => files[f] # created
                    /\ age <= last_sweep.threshold * TicksPerDay => files[f] # NoFile

====
